---------------------------- MODULE Spec2Model ----------------------------
(***************************************************************************)
(* A model of monitor.py (oppmonitor): the fingerprinting of feed entries, *)
(* the persistent "seen" ledger, the keyword scorer and the pipeline       *)
(* main -> fetch_rss_source -> build_email_html -> send_email.             *)
(*                                                                         *)
(* Text is modelled as a sequence of one-character strings, so that        *)
(* normalisation, substring matching and string comparison are computed    *)
(* as Python computes them.                                                *)
(***************************************************************************)
EXTENDS Integers, Sequences, FiniteSets, TLC

VARIABLES
    sc_text,      \* scorer harness: the text argument of score_item
    sc_cfg,       \* scorer harness: the cfg argument of score_item
    sc_result,    \* scorer harness: the (keep, score) pair score_item returned
    sc_pc,        \* scorer harness: "call", then "returned" or "raised"
    db,           \* the sqlite file: [table |-> the table seen exists, rows |-> its rows]
    clock,        \* datetime.now(timezone.utc), as a counter
    feed,         \* what feedparser.parse(url) returns for each url, now
    cfg,          \* sources.yml as load_config returns it
    runs,         \* the number of runs of main started so far
    pc,           \* per process: where its run of main is
    src_i,        \* per process: main's position in cfg["sources"]
    d_entries,    \* per process: fetch_rss_source's d.entries[:200]
    ent_i,        \* per process: fetch_rss_source's position in d_entries
    items,        \* per process: fetch_rss_source's items
    all_items,    \* per process: main's all_items
    digest,       \* per process: build_email_html's items_sorted
    emitted,      \* history: fingerprint -> number of Items fetch_rss_source returned for it
    sent,         \* history: fingerprint -> number of sent emails that include it
    markCalls,    \* history: fingerprint -> number of mark_seen calls for it
    firstMark,    \* history: fingerprint -> the timestamp of the first mark_seen call for it
    cut,          \* history: the fingerprints of items that max_items cut from a digest
    feedSame,     \* history: a run completed and the feed has not changed since
    atStart,      \* history, per process: feedSame and db when its run started
    fault,        \* history, per process: the failure that occurred in its run
    lost,         \* history: the fingerprints marked by runs that were interrupted
    fp            \* fingerprint harness: two (title, link) pairs and their item_id

scVars == <<sc_text, sc_cfg, sc_result, sc_pc>>

plVars == <<db, clock, feed, cfg, runs, pc, src_i, d_entries, ent_i, items,
            all_items, digest, emitted, sent, markCalls, firstMark, cut,
            feedSame, atStart, fault, lost>>

\* the variables of the two harnesses of pure functions
harnessVars == <<sc_text, sc_cfg, sc_result, sc_pc, fp>>

vars == <<sc_text, sc_cfg, sc_result, sc_pc, db, clock, feed, cfg, runs, pc,
          src_i, d_entries, ent_i, items, all_items, digest, emitted, sent,
          markCalls, firstMark, cut, feedSame, atStart, fault, lost, fp>>

(***************************************************************************)
(* Bounds of the model.                                                    *)
(***************************************************************************)
\* a scored text is the concatenation of at most this many fragments
MaxTextFrags == 2
\* nice_to_have_any lists have at most this many phrases
MaxNice == 2
\* the feed of source A has at most this many entries
MaxEntriesA == 2
\* the feed of source B has at most this many entries
MaxEntriesB == 1
\* main is run at most this many times
MaxRuns == 2
\* email.max_items is at most this
MaxMaxItems == 2
\* a fingerprinted title is the concatenation of at most this many fragments
MaxTitleFrags == 2

(***************************************************************************)
(* Strings.                                                                *)
(***************************************************************************)
UpperChars ==
    <<"A","B","C","D","E","F","G","H","I","J","K","L","M",
      "N","O","P","Q","R","S","T","U","V","W","X","Y","Z">>

LowerChars ==
    <<"a","b","c","d","e","f","g","h","i","j","k","l","m",
      "n","o","p","q","r","s","t","u","v","w","x","y","z">>

\* the characters the regular expression \s matches (those the model uses)
Whitespace == {" ", "\t", "\n"}

Min(a, b) == IF a <= b THEN a ELSE b

\* Python's None
None == <<"<None>">>

\* the lower-case letter of every upper-case letter
ToLower ==
    [c \in {UpperChars[i] : i \in DOMAIN UpperChars} |->
        LowerChars[CHOOSE i \in DOMAIN UpperChars : UpperChars[i] = c]]

\* str.lower() on one character
LowerChar(c) == IF c \in DOMAIN ToLower THEN ToLower[c] ELSE c

\* str.lower()
lower(s) == [i \in 1..Len(s) |-> LowerChar(s[i])]

\* re.sub(r"\s+", " ", s): every maximal run of whitespace becomes one space
re_sub_ws(s) ==
    LET F[i \in 0..Len(s)] ==
            IF i = 0 THEN <<>>
            ELSE IF s[i] \in Whitespace
                 THEN IF i > 1 /\ s[i-1] \in Whitespace
                      THEN F[i-1]
                      ELSE Append(F[i-1], " ")
                 ELSE Append(F[i-1], s[i])
    IN  F[Len(s)]

\* str.strip(): leading and trailing whitespace removed
strip(s) ==
    LET keep == {i \in 1..Len(s) : s[i] \notin Whitespace}
    IN  IF keep = {} THEN <<>>
        ELSE LET lo == CHOOSE i \in keep : \A j \in keep : i <= j
                 hi == CHOOSE i \in keep : \A j \in keep : j <= i
             IN  SubSeq(s, lo, hi)

\* normalize_text without .lower()
normalize_text_NoLower(s) ==
    strip(re_sub_ws(IF s = None THEN <<>> ELSE s))

\* normalize_text: re.sub(r"\s+", " ", (s or "")).strip().lower()
normalize_text(s) ==
    lower(strip(re_sub_ws(IF s = None THEN <<>> ELSE s)))

\* Python's "x in t" on strings: x is a contiguous substring of t
Contains(t, x) ==
    \E i \in 0..(Len(t) - Len(x)) : SubSeq(t, i + 1, i + Len(x)) = x

(***************************************************************************)
(* Words.                                                                  *)
(***************************************************************************)
W_rfp ==
    <<"r","f","p">>
W_tender ==
    <<"t","e","n","d","e","r">>
W_eoi ==
    <<"e","o","i">>
W_expression_of_interest ==
    <<"e","x","p","r","e","s","s","i","o","n"," ","o","f"," ","i","n","t","e","r","e","s","t">>
W_procurement ==
    <<"p","r","o","c","u","r","e","m","e","n","t">>
W_bid ==
    <<"b","i","d">>
W_request_for_proposal ==
    <<"r","e","q","u","e","s","t"," ","f","o","r"," ","p","r","o","p","o","s","a","l">>
W_cloud ==
    <<"c","l","o","u","d">>
W_cancelled ==
    <<"c","a","n","c","e","l","l","e","d">>
W_general_news ==
    <<"g","e","n","e","r","a","l"," ","n","e","w","s">>
W_RFP ==
    <<"R","F","P">>
W_Cloud_sp ==
    <<"C","l","o","u","d"," ">>
W_Cancelled_ws ==
    <<" ","C","a","n","c","e","l","l","e","d","\t">>
W_sp ==
    <<" ">>
W_nl ==
    <<"\n">>

(***************************************************************************)
(* score_item.                                                             *)
(***************************************************************************)
\* bonus_terms of score_item, in the order of the list
bonus_terms ==
    <<W_rfp, W_tender, W_eoi, W_expression_of_interest, W_procurement,
      W_bid, W_request_for_proposal>>

\* the baseline score of a relevant text, the points per matched term, the cap
BaseScore == 60
TermPoints == 5
ScoreCap == 100

\* dict.get(key, []) on the keywords section
KwGet(kw, key) == IF key \in DOMAIN kw THEN kw[key] ELSE <<>>

\* kw = cfg["keywords"] raises KeyError when the section is missing
score_item_raises(c) == "keywords" \notin DOMAIN c

\* any(x in t for x in exclude_any), with the phrase taken as written
ExcludeHit_Raw(t, kw) ==
    \E i \in DOMAIN KwGet(kw, "exclude_any") :
        Contains(t, KwGet(kw, "exclude_any")[i])

\* any(normalize_text(x) in t for x in kw.get("exclude_any", []))
ExcludeHit(t, kw) ==
    \E i \in DOMAIN KwGet(kw, "exclude_any") :
        Contains(t, normalize_text(KwGet(kw, "exclude_any")[i]))

\* not any(...), without the test that the list is non-empty
MustMiss_NoEmptyTest(t, kw) ==
    LET must == KwGet(kw, "must_have_any")
    IN  ~ \E i \in DOMAIN must : Contains(t, normalize_text(must[i]))

\* must and not any(normalize_text(x) in t for x in must)
MustMiss(t, kw) ==
    LET must == KwGet(kw, "must_have_any")
    IN  /\ must # <<>>
        /\ ~ \E i \in DOMAIN must : Contains(t, normalize_text(must[i]))

\* sum(1 for x in nice if normalize_text(x) in t)
NiceCount(t, kw) ==
    LET nice == KwGet(kw, "nice_to_have_any")
    IN  Cardinality({i \in DOMAIN nice : Contains(t, normalize_text(nice[i]))})

\* sum(1 for x in bonus_terms if x in t)
BonusCount(t) ==
    Cardinality({i \in DOMAIN bonus_terms : Contains(t, bonus_terms[i])})

\* score_item(text, cfg) -> (keep, score), for a cfg with a keywords section
score_item(text, c) ==
    LET kw == c["keywords"]
        t  == normalize_text(text)
    IN  IF ExcludeHit(t, kw) THEN <<FALSE, 0>>
        ELSE IF MustMiss(t, kw) THEN <<FALSE, 0>>
        ELSE <<TRUE,
               Min(BaseScore + TermPoints * NiceCount(t, kw)
                             + TermPoints * BonusCount(t),
                   ScoreCap)>>

\* the sequences over S of length at most n
RECURSIVE SeqsUpTo(_, _)
SeqsUpTo(S, n) ==
    IF n = 0 THEN {<<>>}
    ELSE SeqsUpTo(S, n - 1) \cup {Append(q, x) : q \in SeqsUpTo(S, n - 1), x \in S}

\* a configuration with no keywords section
CfgNoKeywords == [sources |-> <<>>]

(***************************************************************************)
(* Fingerprints and the seen ledger.                                       *)
(***************************************************************************)
\* sha256(base).hexdigest(): the digest is not computed; it is a value that
\* is equal for equal pre-hash strings and different for different ones
sha256(base) == <<"sha256", base>>

\* base = normalize_text(title) + "|" + normalize_text(link)
item_id_base(title, link) ==
    normalize_text(title) \o <<"|">> \o normalize_text(link)

\* item_id(title, link)
item_id(title, link) == sha256(item_id_base(title, link))

\* CREATE TABLE seen, with DROP TABLE before it
ensure_db_Recreate(d) == [table |-> TRUE, rows |-> {}]

\* ensure_db: CREATE TABLE IF NOT EXISTS seen (id TEXT PRIMARY KEY, ...)
ensure_db(d) == IF d.table THEN d ELSE [table |-> TRUE, rows |-> {}]

\* a query that never finds a row
already_seen_Never(d, iid) == FALSE

\* already_seen: SELECT 1 FROM seen WHERE id = ?
already_seen(d, iid) == \E r \in d.rows : r.id = iid

\* the INSERT is lost (never committed)
mark_seen_NoInsert(d, iid, now) == d

\* INSERT OR REPLACE: the row of an id already there is overwritten
mark_seen_Replace(d, iid, now) ==
    [d EXCEPT !.rows = {r \in @ : r.id # iid}
                       \cup {[id |-> iid, first_seen_utc |-> now]}]

\* INSERT into a table whose id is not a key: a row is added every time
mark_seen_NoKey(d, iid, now) ==
    [d EXCEPT !.rows = @ \cup {[id |-> iid, first_seen_utc |-> now]}]

\* mark_seen: INSERT OR IGNORE INTO seen (id, first_seen_utc) VALUES (?, now),
\* id being the primary key
mark_seen(d, iid, now) ==
    IF \E r \in d.rows : r.id = iid
    THEN d
    ELSE [d EXCEPT !.rows = @ \cup {[id |-> iid, first_seen_utc |-> now]}]

(***************************************************************************)
(* Entries, dates, items.                                                  *)
(***************************************************************************)
\* e.get(key, "")
EGet(e, key) == IF key \in DOMAIN e THEN e[key] ELSE <<>>

Digits == <<"0","1","2","3","4","5","6","7","8","9">>

\* n written in decimal on w digits, zero padded
RECURSIVE Pad(_, _)
Pad(n, w) == IF w = 0 THEN <<>> ELSE Append(Pad(n \div 10, w - 1), Digits[(n % 10) + 1])

\* date.isoformat(): YYYY-MM-DD
isoformat(dt) == Pad(dt[1], 4) \o <<"-">> \o Pad(dt[2], 2) \o <<"-">> \o Pad(dt[3], 2)

\* A date field of an entry is [raw |-> the string, parsed |-> what
\* dateparser.parse(raw) returns as <<year, month, day>>, or <<>> when it raises].
\* parse_date(entry): the first of published, updated, created that is present,
\* non-empty and parses; "" when there is none
parse_date(e) ==
    LET ok(k) == /\ k \in DOMAIN e
                 /\ e[k].raw # <<>>
                 /\ e[k].parsed # <<>>
    IN  IF ok("published") THEN isoformat(e["published"].parsed)
        ELSE IF ok("updated") THEN isoformat(e["updated"].parsed)
        ELSE IF ok("created") THEN isoformat(e["created"].parsed)
        ELSE <<>>

\* the code point of a character of a date string
Ord(c) == IF c = "-" THEN 45
          ELSE 47 + (CHOOSE i \in DOMAIN Digits : Digits[i] = c)

\* Python's a < b on strings
StrLess(a, b) ==
    LET n    == Min(Len(a), Len(b))
        diff == {i \in 1..n : a[i] # b[i]}
    IN  IF diff = {} THEN Len(a) < Len(b)
        ELSE LET k == CHOOSE i \in diff : \A j \in diff : i <= j
             IN  Ord(a[k]) < Ord(b[k])

\* (x.score, x.published) < (y.score, y.published)
KeyLess(x, y) ==
    \/ x.score < y.score
    \/ x.score = y.score /\ StrLess(x.published, y.published)

\* sorted(items, key=...) without reverse=True: ascending, stable
sorted_asc(s) ==
    LET ins(q, x) ==
            LET k == Cardinality({j \in 1..Len(q) : ~ KeyLess(x, q[j])})
            IN  SubSeq(q, 1, k) \o <<x>> \o SubSeq(q, k + 1, Len(q))
        F[i \in 0..Len(s)] == IF i = 0 THEN <<>> ELSE ins(F[i-1], s[i])
    IN  F[Len(s)]

\* sorted(items, key=lambda x: (x.score, x.published), reverse=True):
\* descending, and stable (equal keys keep the order of the input)
sorted_desc(s) ==
    LET ins(q, x) ==
            LET k == Cardinality({j \in 1..Len(q) : ~ KeyLess(q[j], x)})
            IN  SubSeq(q, 1, k) \o <<x>> \o SubSeq(q, k + 1, Len(q))
        F[i \in 0..Len(s)] == IF i = 0 THEN <<>> ELSE ins(F[i-1], s[i])
    IN  F[Len(s)]

\* s[:n]
SliceTo(s, n) ==
    IF n >= 0 THEN SubSeq(s, 1, Min(n, Len(s)))
    ELSE SubSeq(s, 1, IF Len(s) + n > 0 THEN Len(s) + n ELSE 0)

\* items_sorted of build_email_html
items_sorted(its, c) == SliceTo(sorted_desc(its), c["email"]["max_items"])

\* d.entries[:200]
MaxFeedEntries == 200

\* the locals of one pass of the loop of fetch_rss_source over entry e
TitleOf(e)   == strip(EGet(e, "title"))
LinkOf(e)    == strip(EGet(e, "link"))
SummaryOf(e) ==
    strip(IF EGet(e, "summary") # <<>> THEN EGet(e, "summary")
          ELSE EGet(e, "description"))
BlobOf(e)    == TitleOf(e) \o <<"\n">> \o SummaryOf(e)
IidOf(e)     == item_id(TitleOf(e), LinkOf(e))

W_no_title ==
    <<"(","n","o"," ","t","i","t","l","e",")">>

\* Item(...) as fetch_rss_source builds it. The field summary is left out (no
\* property reads it); iid is not a field of the dataclass: it records the
\* fingerprint the item was marked with.
MakeItem(src, e, score) ==
    [source    |-> src["name"],
     title     |-> IF TitleOf(e) = <<>> THEN W_no_title ELSE TitleOf(e),
     link      |-> LinkOf(e),
     published |-> parse_date(e),
     tags      |-> IF "tags" \in DOMAIN src THEN src["tags"] ELSE <<>>,
     score     |-> score,
     iid       |-> IidOf(e)]

(***************************************************************************)
(* The configuration and the feeds of the pipeline.                        *)
(***************************************************************************)
Procs == {1, 2}

Sources ==
    <<[name |-> "A", type |-> "rss", url |-> "A", tags |-> <<"apac">>],
      [name |-> "H", type |-> "html", url |-> "H"],
      [name |-> "B", type |-> "rss", url |-> "B"]>>

RssUrls == {"A", "B"}

PipelineKeywords ==
    [exclude_any      |-> <<W_cancelled>>,
     must_have_any    |-> <<W_rfp, W_tender>>,
     nice_to_have_any |-> <<W_cloud>>]

Cfgs ==
    {[keywords |-> PipelineKeywords,
      email    |-> [max_items |-> n],
      sources  |-> Sources] : n \in 0..MaxMaxItems}

\* f without the key k
WithoutKey(f, k) == [x \in DOMAIN f \ {k} |-> f[x]]

PolicyKeys == {"exclude_any", "must_have_any", "nice_to_have_any"}

\* a sources.yml that lacks the keywords section or one of its keys
Malformed(c) ==
    \/ "keywords" \notin DOMAIN c
    \/ \E k \in PolicyKeys : k \notin DOMAIN c["keywords"]

\* the malformed variants of one well-formed configuration
MalformedCfgs ==
    LET c0 == CHOOSE c \in Cfgs : c["email"]["max_items"] = MaxMaxItems
    IN  {WithoutKey(c0, "keywords")}
        \cup {[c0 EXCEPT !["keywords"] = WithoutKey(@, k)] : k \in PolicyKeys}

AllCfgs == Cfgs \cup MalformedCfgs

L_xa ==
    <<"x","/","a">>
L_XA_ws ==
    <<" ","X","/","A"," ">>
L_xb ==
    <<"x","/","b">>
L_xc ==
    <<"x","/","c">>
L_xd ==
    <<"x","/","d">>

D(raw, parsed) == [raw |-> raw, parsed |-> parsed]
Jan1 == D(<<"2","0","2","4","-","0","1","-","0","1">>, <<2024, 1, 1>>)
Feb1 == D(<<"1"," ","F","e","b"," ","2","0","2","4">>, <<2024, 2, 1>>)
Soon == D(<<"s","o","o","n">>, <<>>)

\* score 70, 2024-01-01
E_a == [title |-> W_RFP \o W_sp \o W_Cloud_sp, link |-> L_xa, published |-> Jan1]
\* the entry E_a written differently (same fingerprint): score 75, 2024-02-01
E_a2 == [title |-> W_rfp \o W_sp \o W_sp \o W_cloud, link |-> L_XA_ws,
         summary |-> W_tender, published |-> Soon, updated |-> Feb1]
\* score 70, no date
E_b == [title |-> W_tender, link |-> L_xb, description |-> W_cloud,
        published |-> Soon]
\* score 70, 2024-01-01
E_c == [title |-> W_bid \o W_sp \o W_rfp, link |-> L_xc, created |-> Jan1]
\* score 70, 2024-02-01
E_d == [title |-> W_tender \o W_nl \o W_cloud, link |-> L_xd, published |-> Feb1]
\* not relevant: an exclude phrase
E_x == [title |-> W_RFP \o W_Cancelled_ws, link |-> L_xd, published |-> Feb1]
\* not relevant: no must-have phrase
E_n == [title |-> W_general_news, link |-> L_xb]

\* A feed is held as the sequence of the names of its entries
Entry ==
    [n \in {"a", "a2", "b", "c", "d", "x", "n"} |->
        CASE n = "a"  -> E_a
          [] n = "a2" -> E_a2
          [] n = "b"  -> E_b
          [] n = "c"  -> E_c
          [] n = "d"  -> E_d
          [] n = "x"  -> E_x
          [] n = "n"  -> E_n]

\* the entries of the feeds that change from run to run
EntryPool == {"a", "a2", "c", "x"}

\* the entries of the feeds of the single-feed specification
RichPool == {"a", "a2", "b", "c", "d", "n"}

MaxEntriesOf(u) == IF u = "A" THEN MaxEntriesA ELSE MaxEntriesB

FeedsOf(u) == SeqsUpTo(EntryPool, MaxEntriesOf(u))

\* What one pass of the loop of fetch_rss_source computes for the entry named n
\* under configuration c, tabulated: (keep, score) of score_item(blob, cfg) ...
ScoreOf ==
    [n \in DOMAIN Entry |->
        [c \in {x \in AllCfgs : ~ score_item_raises(x)} |->
            score_item(BlobOf(Entry[n]), c)]]

\* ... iid = item_id(title, link) ...
IidOfEntry == [n \in DOMAIN Entry |-> IidOf(Entry[n])]

\* ... and the Item it appends, for the source at position k of cfg["sources"]
ItemOf ==
    [n \in DOMAIN Entry |->
        [c \in {x \in AllCfgs : ~ score_item_raises(x)} |->
            [k \in DOMAIN c["sources"] |->
                MakeItem(c["sources"][k], Entry[n], ScoreOf[n][c][2])]]]

(***************************************************************************)
(* History bookkeeping.                                                    *)
(***************************************************************************)
CountOf(b, x) == IF x \in DOMAIN b THEN b[x] ELSE 0
CountUp(b, x) == IF x \in DOMAIN b THEN [b EXCEPT ![x] = @ + 1] ELSE (x :> 1) @@ b

RECURSIVE CountUpAll(_, _)
CountUpAll(b, its) ==
    IF its = <<>> THEN b
    ELSE CountUpAll(CountUp(b, Head(its).iid), Tail(its))

LedgerIds == {r.id : r \in db.rows}

\* the fingerprints of the items the run of process p has appended
AppendedInRun(p) ==
    {items[p][i].iid : i \in DOMAIN items[p]}
    \cup {all_items[p][i].iid : i \in DOMAIN all_items[p]}

\* those of them that are committed to the ledger: mark_seen follows every
\* items.append, and has returned unless it is the call that failed
MarkedInRun(p) == AppendedInRun(p) \cap LedgerIds

(***************************************************************************)
(* main and fetch_rss_source, one process p per run of the program.        *)
(***************************************************************************)
NoRun == [same |-> FALSE, db |-> [table |-> FALSE, rows |-> {}]]

InitPipeline ==
    /\ db = [table |-> FALSE, rows |-> {}]
    /\ clock = 1
    /\ feed = [u \in RssUrls |-> <<>>]
    /\ cfg \in Cfgs
    /\ runs = 0
    /\ pc = [p \in Procs |-> "idle"]
    /\ src_i = [p \in Procs |-> 1]
    /\ d_entries = [p \in Procs |-> <<>>]
    /\ ent_i = [p \in Procs |-> 1]
    /\ items = [p \in Procs |-> <<>>]
    /\ all_items = [p \in Procs |-> <<>>]
    /\ digest = [p \in Procs |-> <<>>]
    /\ emitted = <<>>
    /\ sent = <<>>
    /\ markCalls = <<>>
    /\ firstMark = <<>>
    /\ cut = {}
    /\ feedSame = FALSE
    /\ atStart = [p \in Procs |-> NoRun]
    /\ fault = [p \in Procs |-> "none"]
    /\ lost = {}

histVars == <<emitted, sent, markCalls, firstMark, cut, feedSame, atStart,
              fault, lost>>

\* the feed of one source changes; it does while no run is under way
FeedChange ==
    /\ \A p \in Procs : pc[p] = "idle"
    /\ \E u \in RssUrls : \E es \in FeedsOf(u) :
          /\ es # feed[u]
          /\ feed' = [feed EXCEPT ![u] = es]
    /\ feedSame' = FALSE
    /\ UNCHANGED <<db, clock, cfg, runs, pc, src_i, d_entries, ent_i, items,
                   all_items, digest, emitted, sent, markCalls, firstMark,
                   cut, atStart>>
    /\ UNCHANGED <<fault, lost>>

\* main is started: cfg = load_config()
Start(p) ==
    /\ pc[p] = "idle"
    /\ runs < MaxRuns
    /\ runs' = runs + 1
    /\ pc' = [pc EXCEPT ![p] = "ensure_db"]
    /\ atStart' = [atStart EXCEPT ![p] = [same |-> feedSame, db |-> db]]
    /\ UNCHANGED <<db, clock, feed, cfg, src_i, d_entries, ent_i, items,
                   all_items, digest, emitted, sent, markCalls, firstMark,
                   cut, feedSame>>
    /\ UNCHANGED <<fault, lost>>

\* ensure_db(); all_items = []
EnsureDb(p) ==
    /\ pc[p] = "ensure_db"
    /\ db' = ensure_db(db)
    /\ all_items' = [all_items EXCEPT ![p] = <<>>]
    /\ src_i' = [src_i EXCEPT ![p] = 1]
    /\ pc' = [pc EXCEPT ![p] = "sources"]
    /\ UNCHANGED <<clock, feed, cfg, runs, d_entries, ent_i, items, digest>>
    /\ UNCHANGED histVars

\* the loop over the sources with "break" in place of "continue" in the else
NextSource_BreakOnOther(p) ==
    /\ pc[p] = "sources"
    /\ LET srcs == IF "sources" \in DOMAIN cfg THEN cfg["sources"] ELSE <<>>
       IN  \/ /\ src_i[p] > Len(srcs)
              /\ pc' = [pc EXCEPT ![p] = "build"]
              /\ UNCHANGED <<src_i, d_entries, ent_i, items>>
           \/ /\ src_i[p] <= Len(srcs)
              /\ "type" \in DOMAIN srcs[src_i[p]]
              /\ srcs[src_i[p]]["type"] = "rss"
              /\ d_entries' = [d_entries EXCEPT ![p] =
                                 SliceTo(feed[srcs[src_i[p]]["url"]], MaxFeedEntries)]
              /\ items' = [items EXCEPT ![p] = <<>>]
              /\ ent_i' = [ent_i EXCEPT ![p] = 1]
              /\ pc' = [pc EXCEPT ![p] = "entry"]
              /\ UNCHANGED src_i
           \/ /\ src_i[p] <= Len(srcs)
              /\ ~ ( /\ "type" \in DOMAIN srcs[src_i[p]]
                     /\ srcs[src_i[p]]["type"] = "rss" )
              /\ pc' = [pc EXCEPT ![p] = "build"]
              /\ UNCHANGED <<src_i, d_entries, ent_i, items>>
    /\ UNCHANGED <<db, clock, feed, cfg, runs, all_items, digest>>
    /\ UNCHANGED histVars

\* for src in cfg.get("sources", []): the next source, or the end of the loop.
\* For an rss source fetch_rss_source is entered: d = feedparser.parse(url)
NextSource(p) ==
    /\ pc[p] = "sources"
    /\ LET srcs == IF "sources" \in DOMAIN cfg THEN cfg["sources"] ELSE <<>>
       IN  \/ /\ src_i[p] > Len(srcs)
              /\ pc' = [pc EXCEPT ![p] = "build"]
              /\ UNCHANGED <<src_i, d_entries, ent_i, items>>
           \/ /\ src_i[p] <= Len(srcs)
              /\ "type" \in DOMAIN srcs[src_i[p]]
              /\ srcs[src_i[p]]["type"] = "rss"
              /\ d_entries' = [d_entries EXCEPT ![p] =
                                 SliceTo(feed[srcs[src_i[p]]["url"]], MaxFeedEntries)]
              /\ items' = [items EXCEPT ![p] = <<>>]
              /\ ent_i' = [ent_i EXCEPT ![p] = 1]
              /\ pc' = [pc EXCEPT ![p] = "entry"]
              /\ UNCHANGED src_i
           \/ /\ src_i[p] <= Len(srcs)
              /\ ~ ( /\ "type" \in DOMAIN srcs[src_i[p]]
                     /\ srcs[src_i[p]]["type"] = "rss" )
              /\ src_i' = [src_i EXCEPT ![p] = @ + 1]
              /\ UNCHANGED <<pc, d_entries, ent_i, items>>
    /\ UNCHANGED <<db, clock, feed, cfg, runs, all_items, digest>>
    /\ UNCHANGED histVars

\* the loop without "if not keep: continue"
EntryStep_NoScoreTest(p) ==
    /\ pc[p] = "entry"
    /\ \/ /\ ent_i[p] > Len(d_entries[p])
          /\ all_items' = [all_items EXCEPT ![p] = @ \o items[p]]
          /\ emitted' = CountUpAll(emitted, items[p])
          /\ items' = [items EXCEPT ![p] = <<>>]
          /\ d_entries' = [d_entries EXCEPT ![p] = <<>>]
          /\ ent_i' = [ent_i EXCEPT ![p] = 1]
          /\ src_i' = [src_i EXCEPT ![p] = @ + 1]
          /\ pc' = [pc EXCEPT ![p] = "sources"]
       \/ /\ ent_i[p] <= Len(d_entries[p])
          /\ ~ score_item_raises(cfg)
          /\ LET e == d_entries[p][ent_i[p]]
             IN  already_seen(db, IidOfEntry[e])
          /\ ent_i' = [ent_i EXCEPT ![p] = @ + 1]
          /\ UNCHANGED <<pc, src_i, d_entries, items, all_items, emitted>>
       \/ /\ ent_i[p] <= Len(d_entries[p])
          /\ ~ score_item_raises(cfg)
          /\ LET e == d_entries[p][ent_i[p]]
             IN  ~ already_seen(db, IidOfEntry[e])
          /\ pc' = [pc EXCEPT ![p] = "mark"]
          /\ UNCHANGED <<ent_i, src_i, d_entries, items, all_items, emitted>>
    /\ UNCHANGED <<db, clock, feed, cfg, runs, digest, sent, markCalls,
                   firstMark, cut, feedSame, atStart>>
    /\ UNCHANGED <<fault, lost>>

\* one pass of "for e in d.entries[:200]" up to "if already_seen(iid)", or the
\* end of the loop: return items, which main appends to all_items
EntryStep(p) ==
    /\ pc[p] = "entry"
    /\ \/ /\ ent_i[p] > Len(d_entries[p])
          /\ all_items' = [all_items EXCEPT ![p] = @ \o items[p]]
          /\ emitted' = CountUpAll(emitted, items[p])
          /\ items' = [items EXCEPT ![p] = <<>>]
          /\ d_entries' = [d_entries EXCEPT ![p] = <<>>]
          /\ ent_i' = [ent_i EXCEPT ![p] = 1]
          /\ src_i' = [src_i EXCEPT ![p] = @ + 1]
          /\ pc' = [pc EXCEPT ![p] = "sources"]
       \/ /\ ent_i[p] <= Len(d_entries[p])
          /\ ~ score_item_raises(cfg)
          /\ LET e == d_entries[p][ent_i[p]]
             IN  IF ~ ScoreOf[e][cfg][1]
                 THEN TRUE
                 ELSE already_seen(db, IidOfEntry[e])
          /\ ent_i' = [ent_i EXCEPT ![p] = @ + 1]
          /\ UNCHANGED <<pc, src_i, d_entries, items, all_items, emitted>>
       \/ /\ ent_i[p] <= Len(d_entries[p])
          /\ ~ score_item_raises(cfg)
          /\ LET e == d_entries[p][ent_i[p]]
             IN  IF ~ ScoreOf[e][cfg][1]
                 THEN FALSE
                 ELSE ~ already_seen(db, IidOfEntry[e])
          /\ pc' = [pc EXCEPT ![p] = "mark"]
          /\ UNCHANGED <<ent_i, src_i, d_entries, items, all_items, emitted>>
    /\ UNCHANGED <<db, clock, feed, cfg, runs, digest, sent, markCalls,
                   firstMark, cut, feedSame, atStart>>
    /\ UNCHANGED <<fault, lost>>

\* items.append(Item(...)) without mark_seen(iid) when the digest is full
MarkStep_OnlyIfRoom(p) ==
    /\ pc[p] = "mark"
    /\ LET e == d_entries[p][ent_i[p]]
           room == Len(all_items[p]) + Len(items[p]) < cfg["email"]["max_items"]
       IN  /\ items' = [items EXCEPT ![p] =
                          Append(@, ItemOf[e][cfg][src_i[p]])]
           /\ db' = IF room THEN mark_seen(db, IidOfEntry[e], clock) ELSE db
           /\ markCalls' = IF room THEN CountUp(markCalls, IidOfEntry[e]) ELSE markCalls
           /\ firstMark' = IF room /\ IidOfEntry[e] \notin DOMAIN firstMark
                           THEN (IidOfEntry[e] :> clock) @@ firstMark
                           ELSE firstMark
    /\ clock' = clock + 1
    /\ ent_i' = [ent_i EXCEPT ![p] = @ + 1]
    /\ pc' = [pc EXCEPT ![p] = "entry"]
    /\ UNCHANGED <<feed, cfg, runs, src_i, d_entries, all_items, digest,
                   emitted, sent, cut, feedSame, atStart>>
    /\ UNCHANGED <<fault, lost>>

\* items.append(Item(...)) without the call of mark_seen
MarkStep_AppendOnly(p) ==
    /\ pc[p] = "mark"
    /\ LET e == d_entries[p][ent_i[p]]
       IN  items' = [items EXCEPT ![p] =
                       Append(@, ItemOf[e][cfg][src_i[p]])]
    /\ ent_i' = [ent_i EXCEPT ![p] = @ + 1]
    /\ pc' = [pc EXCEPT ![p] = "entry"]
    /\ UNCHANGED <<db, clock, feed, cfg, runs, src_i, d_entries, all_items, digest,
                   emitted, sent, markCalls, firstMark, cut, feedSame, atStart>>
    /\ UNCHANGED <<fault, lost>>

\* items.append(Item(...)); mark_seen(iid)
MarkStep(p) ==
    /\ pc[p] = "mark"
    /\ LET e == d_entries[p][ent_i[p]]
       IN  /\ items' = [items EXCEPT ![p] =
                          Append(@, ItemOf[e][cfg][src_i[p]])]
           /\ db' = mark_seen(db, IidOfEntry[e], clock)
           /\ markCalls' = CountUp(markCalls, IidOfEntry[e])
           /\ firstMark' = IF IidOfEntry[e] \in DOMAIN firstMark
                           THEN firstMark
                           ELSE (IidOfEntry[e] :> clock) @@ firstMark
    /\ clock' = clock + 1
    /\ ent_i' = [ent_i EXCEPT ![p] = @ + 1]
    /\ pc' = [pc EXCEPT ![p] = "entry"]
    /\ UNCHANGED <<feed, cfg, runs, src_i, d_entries, all_items, digest,
                   emitted, sent, cut, feedSame, atStart>>
    /\ UNCHANGED <<fault, lost>>

\* html = build_email_html(all_items, cfg): the digest is items_sorted
Build(p) ==
    /\ pc[p] = "build"
    /\ digest' = [digest EXCEPT ![p] = items_sorted(all_items[p], cfg)]
    /\ cut' = cut \cup ({all_items[p][i].iid : i \in DOMAIN all_items[p]}
                        \ {digest'[p][i].iid : i \in DOMAIN digest'[p]})
    /\ pc' = [pc EXCEPT ![p] = "send"]
    /\ UNCHANGED <<db, clock, feed, cfg, runs, src_i, d_entries, ent_i, items,
                   all_items, emitted, sent, markCalls, firstMark, feedSame,
                   atStart>>
    /\ UNCHANGED <<fault, lost>>

\* send_email(html, subject): the digest is mailed
Send(p) ==
    /\ pc[p] = "send"
    /\ sent' = CountUpAll(sent, digest[p])
    /\ feedSame' = TRUE
    /\ pc' = [pc EXCEPT ![p] = "done"]
    /\ UNCHANGED <<db, clock, feed, cfg, runs, src_i, d_entries, ent_i, items,
                   all_items, digest, emitted, markCalls, firstMark, cut,
                   atStart>>
    /\ UNCHANGED <<fault, lost>>

\* main returns and the process exits
Exit(p) ==
    /\ pc[p] = "done"
    /\ pc' = [pc EXCEPT ![p] = "idle"]
    /\ src_i' = [src_i EXCEPT ![p] = 1]
    /\ all_items' = [all_items EXCEPT ![p] = <<>>]
    /\ digest' = [digest EXCEPT ![p] = <<>>]
    /\ atStart' = [atStart EXCEPT ![p] = NoRun]
    /\ UNCHANGED <<db, clock, feed, cfg, runs, d_entries, ent_i, items,
                   emitted, sent, markCalls, firstMark, cut, feedSame>>
    /\ UNCHANGED <<fault, lost>>

\* the interruption of a run undoes the records the run has added
Crash_Rollback(p) ==
    /\ pc[p] \notin {"idle", "done"}
    /\ db' = [db EXCEPT !.rows = atStart[p].db.rows]
    /\ pc' = [pc EXCEPT ![p] = "idle"]
    /\ src_i' = [src_i EXCEPT ![p] = 1]
    /\ d_entries' = [d_entries EXCEPT ![p] = <<>>]
    /\ ent_i' = [ent_i EXCEPT ![p] = 1]
    /\ items' = [items EXCEPT ![p] = <<>>]
    /\ all_items' = [all_items EXCEPT ![p] = <<>>]
    /\ digest' = [digest EXCEPT ![p] = <<>>]
    /\ atStart' = [atStart EXCEPT ![p] = NoRun]
    /\ fault' = [fault EXCEPT ![p] = "none"]
    /\ lost' = lost \cup MarkedInRun(p)
    /\ UNCHANGED <<clock, feed, cfg, runs, emitted, sent, markCalls,
                   firstMark, cut, feedSame>>

\* the process is interrupted (killed, or an exception leaves main): what it
\* held in memory is lost, what it committed to the database stays
Crash(p) ==
    /\ pc[p] \notin {"idle", "done"}
    /\ pc' = [pc EXCEPT ![p] = "idle"]
    /\ src_i' = [src_i EXCEPT ![p] = 1]
    /\ d_entries' = [d_entries EXCEPT ![p] = <<>>]
    /\ ent_i' = [ent_i EXCEPT ![p] = 1]
    /\ items' = [items EXCEPT ![p] = <<>>]
    /\ all_items' = [all_items EXCEPT ![p] = <<>>]
    /\ digest' = [digest EXCEPT ![p] = <<>>]
    /\ atStart' = [atStart EXCEPT ![p] = NoRun]
    /\ fault' = [fault EXCEPT ![p] = "none"]
    /\ lost' = lost \cup MarkedInRun(p)
    /\ UNCHANGED <<db, clock, feed, cfg, runs, emitted, sent, markCalls,
                   firstMark, cut, feedSame>>

\* kw = cfg["keywords"] raises KeyError in score_item, for the first entry
\* that is scored; nothing in fetch_rss_source or main catches it
ScoreRaises(p) ==
    /\ pc[p] = "entry"
    /\ ent_i[p] <= Len(d_entries[p])
    /\ score_item_raises(cfg)
    /\ pc' = [pc EXCEPT ![p] = "raised"]
    /\ fault' = [fault EXCEPT ![p] = "config"]
    /\ UNCHANGED <<db, clock, feed, cfg, runs, src_i, d_entries, ent_i, items,
                   all_items, digest, emitted, sent, markCalls, firstMark, cut,
                   feedSame, atStart, lost>>

\* d = feedparser.parse(src["url"]) when the feed cannot be retrieved: the
\* library either absorbs the failure and returns a result with no entries, or
\* lets the exception out, and nothing in fetch_rss_source or main catches it
FetchFails(p) ==
    /\ pc[p] = "sources"
    /\ LET srcs == IF "sources" \in DOMAIN cfg THEN cfg["sources"] ELSE <<>>
       IN  /\ src_i[p] <= Len(srcs)
           /\ "type" \in DOMAIN srcs[src_i[p]]
           /\ srcs[src_i[p]]["type"] = "rss"
    /\ \/ /\ d_entries' = [d_entries EXCEPT ![p] = <<>>]
          /\ items' = [items EXCEPT ![p] = <<>>]
          /\ ent_i' = [ent_i EXCEPT ![p] = 1]
          /\ pc' = [pc EXCEPT ![p] = "entry"]
          /\ UNCHANGED fault
       \/ /\ pc' = [pc EXCEPT ![p] = "raised"]
          /\ fault' = [fault EXCEPT ![p] = "fetch"]
          /\ UNCHANGED <<d_entries, items, ent_i>>
    /\ UNCHANGED <<db, clock, feed, cfg, runs, src_i, all_items, digest,
                   emitted, sent, markCalls, firstMark, cut, feedSame, atStart,
                   lost>>

\* the failure of mark_seen is caught and the loop goes on
LedgerFails_Swallowed(p) ==
    /\ pc[p] = "mark"
    /\ items' = [items EXCEPT ![p] =
                    Append(@, ItemOf[d_entries[p][ent_i[p]]][cfg][src_i[p]])]
    /\ ent_i' = [ent_i EXCEPT ![p] = @ + 1]
    /\ pc' = [pc EXCEPT ![p] = "entry"]
    /\ fault' = [fault EXCEPT ![p] = "ledger"]
    /\ UNCHANGED <<db, clock, feed, cfg, runs, src_i, d_entries, all_items,
                   digest, emitted, sent, markCalls, firstMark, cut, feedSame,
                   atStart, lost>>

\* sqlite3 raises in ensure_db, in already_seen (called for a relevant entry)
\* or in mark_seen (called after items.append); nothing catches it
LedgerFails(p) ==
    /\ \/ /\ pc[p] = "ensure_db"
          /\ UNCHANGED items
       \/ /\ pc[p] = "entry"
          /\ ent_i[p] <= Len(d_entries[p])
          /\ ~ score_item_raises(cfg)
          /\ ScoreOf[d_entries[p][ent_i[p]]][cfg][1]
          /\ UNCHANGED items
       \/ /\ pc[p] = "mark"
          /\ items' = [items EXCEPT ![p] =
                          Append(@, ItemOf[d_entries[p][ent_i[p]]][cfg][src_i[p]])]
    /\ pc' = [pc EXCEPT ![p] = "raised"]
    /\ fault' = [fault EXCEPT ![p] = "ledger"]
    /\ UNCHANGED <<db, clock, feed, cfg, runs, src_i, d_entries, ent_i,
                   all_items, digest, emitted, sent, markCalls, firstMark,
                   cut, feedSame, atStart, lost>>

\* send_email raises (a missing SMTP_* variable, an SMTP error): no mail
SendFails(p) ==
    /\ pc[p] = "send"
    /\ pc' = [pc EXCEPT ![p] = "raised"]
    /\ fault' = [fault EXCEPT ![p] = "send"]
    /\ UNCHANGED <<db, clock, feed, cfg, runs, src_i, d_entries, ent_i, items,
                   all_items, digest, emitted, sent, markCalls, firstMark, cut,
                   feedSame, atStart, lost>>

Run(p) ==
    \/ Start(p)
    \/ EnsureDb(p)
    \/ NextSource(p)
    \/ EntryStep(p)
    \/ MarkStep(p)
    \/ Build(p)
    \/ Send(p)
    \/ Exit(p)
    \/ Crash(p)

ScorerOff ==
    /\ sc_text = <<>>
    /\ sc_cfg = CfgNoKeywords
    /\ sc_result = <<>>
    /\ sc_pc = "off"

FpOff == fp = [pc |-> "off"]

\* Sequential runs: one process, which runs main again and again
Init == InitPipeline /\ ScorerOff /\ FpOff

Next ==
    \/ FeedChange /\ UNCHANGED harnessVars
    \/ Run(1) /\ UNCHANGED harnessVars

Spec == Init /\ [][Next]_vars

\* Overlapping runs: two processes run main with no mutual exclusion
NextConc ==
    \/ FeedChange /\ UNCHANGED harnessVars
    \/ \E p \in Procs : Run(p) /\ UNCHANGED harnessVars

SpecConc == Init /\ [][NextConc]_vars

\* One feed, which does not change: the runs of one process over it
RichFeeds ==
    {[u \in RssUrls |-> IF u = "A" THEN fa ELSE fb] :
        fa \in SeqsUpTo(RichPool, MaxEntriesA),
        fb \in SeqsUpTo(RichPool, MaxEntriesB)}

InitOneFeed ==
    /\ feed \in RichFeeds
    /\ db = [table |-> FALSE, rows |-> {}]
    /\ clock = 1
    /\ cfg \in Cfgs
    /\ runs = 0
    /\ pc = [p \in Procs |-> "idle"]
    /\ src_i = [p \in Procs |-> 1]
    /\ d_entries = [p \in Procs |-> <<>>]
    /\ ent_i = [p \in Procs |-> 1]
    /\ items = [p \in Procs |-> <<>>]
    /\ all_items = [p \in Procs |-> <<>>]
    /\ digest = [p \in Procs |-> <<>>]
    /\ emitted = <<>>
    /\ sent = <<>>
    /\ markCalls = <<>>
    /\ firstMark = <<>>
    /\ cut = {}
    /\ feedSame = FALSE
    /\ atStart = [p \in Procs |-> NoRun]
    /\ fault = [p \in Procs |-> "none"]
    /\ lost = {}
    /\ ScorerOff
    /\ FpOff

NextOneFeed == Run(1) /\ UNCHANGED harnessVars

SpecOneFeed == InitOneFeed /\ [][NextOneFeed]_vars

\* Runs that fail: the configuration may be malformed, and the retrieval of a
\* feed, the ledger and the sending of the mail may fail. An exception that
\* left main ends the process, which is what Crash does from "raised".
FaultPool == {"a", "c", "n"}

FaultFeeds ==
    {[u \in RssUrls |-> IF u = "A" THEN fa ELSE fb] :
        fa \in SeqsUpTo(FaultPool, MaxEntriesA),
        fb \in SeqsUpTo(FaultPool, MaxEntriesB)}

InitFaults ==
    /\ feed \in FaultFeeds
    /\ db = [table |-> FALSE, rows |-> {}]
    /\ clock = 1
    /\ cfg \in AllCfgs
    /\ runs = 0
    /\ pc = [p \in Procs |-> "idle"]
    /\ src_i = [p \in Procs |-> 1]
    /\ d_entries = [p \in Procs |-> <<>>]
    /\ ent_i = [p \in Procs |-> 1]
    /\ items = [p \in Procs |-> <<>>]
    /\ all_items = [p \in Procs |-> <<>>]
    /\ digest = [p \in Procs |-> <<>>]
    /\ emitted = <<>>
    /\ sent = <<>>
    /\ markCalls = <<>>
    /\ firstMark = <<>>
    /\ cut = {}
    /\ feedSame = FALSE
    /\ atStart = [p \in Procs |-> NoRun]
    /\ fault = [p \in Procs |-> "none"]
    /\ lost = {}
    /\ ScorerOff
    /\ FpOff

NextFaults ==
    \/ Run(1) /\ UNCHANGED harnessVars
    \/ ScoreRaises(1) /\ UNCHANGED harnessVars
    \/ FetchFails(1) /\ UNCHANGED harnessVars
    \/ LedgerFails(1) /\ UNCHANGED harnessVars
    \/ SendFails(1) /\ UNCHANGED harnessVars

SpecFaults == InitFaults /\ [][NextFaults]_vars

(***************************************************************************)
(* The scorer on its own: Init draws a text and a keyword policy, Score    *)
(* calls score_item on them.                                               *)
(***************************************************************************)
\* all seven bonus terms in one text
W_all_bonus ==
    W_bid \o W_sp \o W_eoi \o W_sp \o W_rfp \o W_sp \o W_tender \o W_sp
    \o W_procurement \o W_nl \o W_expression_of_interest \o W_sp
    \o W_request_for_proposal

TextFrags ==
    {W_RFP, W_tender, W_cloud, W_Cancelled_ws, W_all_bonus}

RECURSIVE TextsOf(_)
TextsOf(n) ==
    IF n = 0 THEN {<<>>}
    ELSE TextsOf(n - 1) \cup {t \o f : t \in TextsOf(n - 1), f \in TextFrags}

ScoreTexts == TextsOf(MaxTextFrags)

ExcludeLists == {<<>>, <<W_cancelled>>, <<W_cloud, W_Cancelled_ws>>}
MustLists    == {<<>>, <<W_tender>>, <<W_RFP, W_tender>>}
NiceLists    == SeqsUpTo({W_cloud, W_Cloud_sp, W_bid}, MaxNice)

\* f with key k mapped to v when present is TRUE
WithKey(f, k, present, v) == IF present THEN (k :> v) @@ f ELSE f

\* the keywords sections: every list, and every key present or absent
KeywordPolicies ==
    {WithKey(WithKey(WithKey(<<>>, "exclude_any", pe, e),
                     "must_have_any", pm, m),
             "nice_to_have_any", pn, n) :
        <<pe, e>> \in ({FALSE} \X {<<>>}) \cup ({TRUE} \X ExcludeLists),
        <<pm, m>> \in ({FALSE} \X {<<>>}) \cup ({TRUE} \X MustLists),
        <<pn, n>> \in ({FALSE} \X {<<>>}) \cup ({TRUE} \X NiceLists)}

ScoreCfgs == {[keywords |-> kw] : kw \in KeywordPolicies} \cup {CfgNoKeywords}

InitScore ==
    /\ sc_text \in ScoreTexts
    /\ sc_cfg \in ScoreCfgs
    /\ sc_result = <<>>
    /\ sc_pc = "call"
    /\ InitPipeline
    /\ cfg = CHOOSE c \in Cfgs : c["email"]["max_items"] = 0
    /\ FpOff

Score ==
    /\ sc_pc = "call"
    /\ IF score_item_raises(sc_cfg)
       THEN sc_pc' = "raised" /\ sc_result' = sc_result
       ELSE sc_pc' = "returned" /\ sc_result' = score_item(sc_text, sc_cfg)
    /\ UNCHANGED <<sc_text, sc_cfg, fp>>
    /\ UNCHANGED plVars

NextScore == Score

SpecScore == InitScore /\ [][NextScore]_vars

(***************************************************************************)
(* item_id on its own: Init draws two (title, link) pairs, Fingerprint     *)
(* calls item_id on each.                                                  *)
(***************************************************************************)
FpFrags == {<<"a">>, <<" ">>, <<"|">>, <<"a", " ">>, <<"A", "\t", " ">>}

FpLinks == {<<>>, <<"|">>, <<"x">>, <<" ", "X", "\n">>}

RECURSIVE FpTexts(_)
FpTexts(n) ==
    IF n = 0 THEN {<<>>}
    ELSE FpTexts(n - 1) \cup {t \o f : t \in FpTexts(n - 1), f \in FpFrags}

InitFp ==
    /\ \E t1 \in FpTexts(MaxTitleFrags), t2 \in FpTexts(MaxTitleFrags),
          l1 \in FpLinks, l2 \in FpLinks :
          fp = [pc |-> "call", t1 |-> t1, l1 |-> l1, t2 |-> t2, l2 |-> l2,
                base1 |-> <<>>, base2 |-> <<>>, id1 |-> <<>>, id2 |-> <<>>]
    /\ InitPipeline
    /\ cfg = CHOOSE c \in Cfgs : c["email"]["max_items"] = 0
    /\ ScorerOff

Fingerprint ==
    /\ fp.pc = "call"
    /\ fp' = [fp EXCEPT !.pc = "returned",
                        !.base1 = item_id_base(fp.t1, fp.l1),
                        !.base2 = item_id_base(fp.t2, fp.l2),
                        !.id1 = item_id(fp.t1, fp.l1),
                        !.id2 = item_id(fp.t2, fp.l2)]
    /\ UNCHANGED scVars
    /\ UNCHANGED plVars

NextFp == Fingerprint

SpecFp == InitFp /\ [][NextFp]_vars

(***************************************************************************)
(* Claims about score_item, under SpecScore.                               *)
(***************************************************************************)
\* the call of score_item returned a (keep, score) pair
Scored == sc_pc = "returned"

ScKw   == sc_cfg["keywords"]
ScNorm == normalize_text(sc_text)
ScExclude == KwGet(ScKw, "exclude_any")
ScMust    == KwGet(ScKw, "must_have_any")
ScNice    == KwGet(ScKw, "nice_to_have_any")

\* the normalized text contains a normalized phrase of the list
AnyPhraseIn(lst) ==
    \E i \in DOMAIN lst : Contains(ScNorm, normalize_text(lst[i]))

\* C7 - exclusion dominance: when the normalized text contains a normalized
\* phrase of exclude_any, score_item returns (False, 0), whatever else matches.
C7_ExclusionDominance ==
    (Scored /\ AnyPhraseIn(ScExclude)) => sc_result = <<FALSE, 0>>

\* an excluded text that also matches a must-have phrase, a nice-to-have
\* phrase and a bonus term, and an exclude phrase that is not written normalized
C7_Witness ==
    /\ Scored
    /\ AnyPhraseIn(ScExclude)
    /\ \E i \in DOMAIN ScExclude :
          /\ Contains(ScNorm, normalize_text(ScExclude[i]))
          /\ ScExclude[i] # normalize_text(ScExclude[i])
          /\ \A j \in DOMAIN ScExclude : ~ Contains(ScNorm, ScExclude[j])
    /\ AnyPhraseIn(ScMust)
    /\ AnyPhraseIn(ScNice)
    /\ Contains(ScNorm, W_rfp)
    /\ sc_result = <<FALSE, 0>>

\* C8 - must-have gate: with no exclude match, score_item returns (False, 0)
\* exactly when must_have_any is non-empty and none of its normalized phrases
\* is in the normalized text; otherwise it returns (True, s) with s >= 60.
C8_MustHaveGate ==
    (Scored /\ ~ AnyPhraseIn(ScExclude)) =>
        IF ScMust # <<>> /\ ~ AnyPhraseIn(ScMust)
        THEN sc_result = <<FALSE, 0>>
        ELSE /\ sc_result[1] = TRUE
             /\ sc_result[2] >= 60

\* both sides of the gate are met: an empty must_have_any (relevant by
\* default) ...
C8_Witness ==
    /\ Scored
    /\ ~ AnyPhraseIn(ScExclude)
    /\ ScMust = <<>>
    /\ sc_result[1] = TRUE
    /\ sc_result[2] = 60

\* ... and a non-empty must_have_any that the text misses
C8_WitnessMiss ==
    /\ Scored
    /\ ~ AnyPhraseIn(ScExclude)
    /\ Len(ScMust) = 2
    /\ ~ AnyPhraseIn(ScMust)
    /\ sc_result = <<FALSE, 0>>

\* C9 - score formula: a relevant text scores
\* min(100, 60 + 5 * #(distinct nice_to_have_any phrases in the text)
\*              + 5 * #(bonus terms in the text)),
\* a phrase listed twice counting once, and the score is within 60..100.
C9_ScoreFormula ==
    (Scored /\ sc_result[1] = TRUE) =>
        LET niceHit  == {ScNice[i] : i \in {j \in DOMAIN ScNice :
                            Contains(ScNorm, normalize_text(ScNice[j]))}}
            bonusHit == {b \in {bonus_terms[i] : i \in DOMAIN bonus_terms} :
                            Contains(ScNorm, b)}
        IN  /\ sc_result[2] =
                 Min(100, 60 + 5 * Cardinality(niceHit) + 5 * Cardinality(bonusHit))
            /\ sc_result[2] >= 60
            /\ sc_result[2] <= 100


(***************************************************************************)
(* Claims about the pipeline.                                              *)
(***************************************************************************)
\* the names of the entries main reads in one run: the first 200 of every rss source
EntriesRead ==
    UNION {{SliceTo(feed[cfg["sources"][k]["url"]], MaxFeedEntries)[i] :
                i \in DOMAIN SliceTo(feed[cfg["sources"][k]["url"]], MaxFeedEntries)} :
           k \in {j \in DOMAIN cfg["sources"] : cfg["sources"][j]["type"] = "rss"}}

\* the fingerprints of a sequence of items
IidsOf(its) == {its[i].iid : i \in DOMAIN its}

\* C1 - dedup across runs: a complete run that reads the entries the complete
\* run before it read, under the same configuration, emits no item and leaves
\* the ledger as it found it.
C1_SecondRunEmitsNothing ==
    \A p \in Procs :
        (pc[p] \in {"build", "send", "done"} /\ atStart[p].same) =>
            /\ all_items[p] = <<>>
            /\ (pc[p] # "build" => digest[p] = <<>>)
            /\ db = atStart[p].db

\* a second complete run over an unchanged feed that has relevant entries
C1_Witness ==
    /\ pc[1] = "done"
    /\ atStart[1].same
    /\ runs = 2
    /\ \E n \in EntriesRead : ScoreOf[n][cfg][1]
    /\ Cardinality(db.rows) = 2

\* C2 - at-most-once emission: over sequential runs no fingerprint is emitted
\* as an Item more than once, neither within one run nor in two runs.
C2_AtMostOnce ==
    /\ \A f \in DOMAIN emitted : emitted[f] <= 1
    /\ \A p \in Procs :
          LET its == all_items[p] \o items[p]
          IN  \A i, j \in DOMAIN its : its[i].iid = its[j].iid => i = j

\* the second run meets one title+link three times (twice in the feed of A,
\* written differently, and once in the feed of B) and emits it once
C2_Witness ==
    /\ pc[1] = "done"
    /\ runs = 2
    /\ feed["A"] = <<"a", "a2">>
    /\ feed["B"] = <<"a2">>
    /\ atStart[1].db.rows # {}
    /\ Len(all_items[1]) = 1
    /\ emitted[IidOfEntry["a"]] = 1
    /\ Cardinality(DOMAIN emitted) = 2

\* C3 - truncation marks seen: after a complete run the fingerprint of every
\* relevant entry the run processed is in the ledger, whatever max_items is,
\* and an item that max_items cut from a digest is never emitted again.
C3_TruncationMarksSeen ==
    /\ \A p \in Procs :
          pc[p] \in {"build", "send", "done"} =>
              /\ \A n \in EntriesRead :
                    ScoreOf[n][cfg][1] => IidOfEntry[n] \in LedgerIds
              /\ IidsOf(all_items[p]) \subseteq LedgerIds
    /\ \A f \in cut : f \in LedgerIds /\ CountOf(emitted, f) = 1

\* max_items = 1 cut an item from the digest of the first run, and the second
\* run read it again and did not emit it
C3_Witness ==
    /\ pc[1] = "done"
    /\ runs = 2
    /\ cfg["email"]["max_items"] = 1
    /\ \E n \in EntriesRead : IidOfEntry[n] \in cut
    /\ all_items[1] = <<>>
    /\ Cardinality(db.rows) = 2

\* C4 - one record per fingerprint: in every state, overlapping runs included,
\* the ledger has at most one record per fingerprint, and the record of a
\* fingerprint carries the timestamp of the first mark_seen call for it.
C4_OneRecordFirstTimestamp ==
    /\ \A r1, r2 \in db.rows : r1.id = r2.id => r1 = r2
    /\ \A f \in DOMAIN markCalls :
          \E r \in db.rows : r.id = f /\ r.first_seen_utc = firstMark[f]
    /\ LedgerIds = DOMAIN markCalls

\* two overlapping runs both called mark_seen for one fingerprint
C4_Witness ==
    \E f \in DOMAIN markCalls :
        /\ markCalls[f] = 2
        /\ \E r \in db.rows : r.id = f /\ r.first_seen_utc = firstMark[f]
        /\ \E r \in db.rows : r.first_seen_utc > firstMark[f]

\* C5 - the ledger grows monotonically: no step removes a record or changes
\* one, and the table, once created, stays.
C5_LedgerMonotonic ==
    [][db.rows \subseteq db'.rows /\ (db.table => db'.table)]_vars

\* ensure_db has run on a ledger that holds records
C5_Witness ==
    /\ runs = 2
    /\ pc[1] = "sources"
    /\ src_i[1] = 1
    /\ Cardinality(db.rows) = 2

\* C6 - notification ordering: when send_email starts, the fingerprint of
\* every item of the digest is in the ledger, and no fingerprint is included
\* in two sent emails, interrupted and restarted runs included.
C6_MarkedBeforeSend ==
    /\ \A p \in Procs :
          pc[p] = "send" => IidsOf(digest[p]) \subseteq LedgerIds
    /\ \A f \in DOMAIN sent : sent[f] <= 1

\* a run was interrupted after it had marked a fingerprint (which no run ever
\* emitted), and the run after it sent an email with another item
C6_Witness ==
    /\ pc[1] = "done"
    /\ runs = 2
    /\ digest[1] # <<>>
    /\ \E r \in db.rows : r.id \notin DOMAIN emitted
    /\ \E f \in DOMAIN sent : sent[f] = 1
    /\ \E n \in EntriesRead :
          ScoreOf[n][cfg][1] /\ IidOfEntry[n] \notin DOMAIN emitted

(***************************************************************************)
(* Claims about the ranking, under SpecOneFeed.                            *)
(***************************************************************************)
\* x ranks above y: a greater score, or the same score and a later published
\* date, an empty date being earlier than every date
Outranks(x, y) ==
    \/ x.score > y.score
    \/ /\ x.score = y.score
       /\ x.published # y.published
       /\ \/ y.published = <<>>
          \/ x.published # <<>> /\ StrLess(y.published, x.published)

\* the items main accumulated that are not in the digest
Omitted(p) ==
    {all_items[p][i] : i \in DOMAIN all_items[p]}
        \ {digest[p][i] : i \in DOMAIN digest[p]}

\* the digest holds min(max_items, number of items) of the accumulated items,
\* each once, in the order of the ranking
RankedPrefix(p) ==
    /\ Len(digest[p]) = Min(cfg["email"]["max_items"], Len(all_items[p]))
    /\ Len(digest[p]) <= cfg["email"]["max_items"]
    /\ \A i \in DOMAIN digest[p] :
          \E j \in DOMAIN all_items[p] : digest[p][i] = all_items[p][j]
    /\ \A i, j \in DOMAIN digest[p] : digest[p][i] = digest[p][j] => i = j
    /\ \A i, j \in DOMAIN digest[p] :
          i < j => ~ Outranks(digest[p][j], digest[p][i])

\* C10 as amended - ranking: the digest is the first max_items of the
\* accumulated items in the order score descending, then published date
\* descending (an empty date last); it has at most max_items elements and no
\* omitted item outranks an item of the digest.
C10_Ranking ==
    \A p \in Procs :
        pc[p] \in {"send", "done"} =>
            /\ RankedPrefix(p)
            /\ \A y \in Omitted(p) : \A i \in DOMAIN digest[p] :
                  ~ Outranks(y, digest[p][i])

\* C10 as claimed: the digest never contains an item that outranks none of
\* the omitted ones.
C10_AsClaimed ==
    \A p \in Procs :
        pc[p] \in {"send", "done"} =>
            /\ RankedPrefix(p)
            /\ \A i \in DOMAIN digest[p] :
                  Omitted(p) # {} =>
                      \E y \in Omitted(p) : Outranks(digest[p][i], y)

\* three items from two sources, two of them in the digest: equal scores
\* ordered by date, an item with no date, and an item cut
C10_Witness ==
    /\ pc[1] = "done"
    /\ Len(all_items[1]) = 3
    /\ Len(digest[1]) = 2
    /\ all_items[1][3].source = "B"
    /\ digest[1][1].score = digest[1][2].score
    /\ StrLess(digest[1][2].published, digest[1][1].published)
    /\ digest[1][2].published # <<>>
    /\ digest[1][1] = all_items[1][3]
    /\ \E y \in Omitted(1) : y.published = <<>>

(***************************************************************************)
(* Claims about runs that fail, under SpecFaults.                          *)
(***************************************************************************)
\* C11: with a configuration that lacks the keywords section or one of the
\* keys exclude_any, must_have_any, nice_to_have_any, the run fails before an
\* entry is scored relevant, an Item is emitted or a ledger record is written:
\* no run gets as far as appending an item, building or sending a digest.
C11_MalformedPolicyFatal ==
    Malformed(cfg) =>
        /\ db.rows = {}
        /\ emitted = <<>>
        /\ markCalls = <<>>
        /\ \A p \in Procs : pc[p] \notin {"mark", "build", "send", "done"}

\* C12: the failure to retrieve the entries of one source never ends the run:
\* no run is left by an exception of the retrieval.
C12_FetchFailureRecoverable ==
    \A p \in Procs : ~ (pc[p] = "raised" /\ fault[p] = "fetch")

\* C13: once ensure_db, already_seen or mark_seen has failed in a run, the
\* failure leaves main: the run does nothing more than end, and no email is
\* sent, whatever the run had accumulated.
C13_LedgerFailureFatal ==
    [][\A p \in Procs :
          (fault[p] = "ledger" \/ fault'[p] = "ledger") =>
              /\ sent' = sent
              /\ pc'[p] \in {"raised", "idle"}
              /\ pc'[p] = "idle" => pc[p] = "raised"]_vars

\* a ledger failure in a run that had items from an earlier source
C13_Witness ==
    \E p \in Procs :
        /\ pc[p] = "raised"
        /\ fault[p] = "ledger"
        /\ all_items[p] # <<>>
        /\ items[p] # <<>>

(***************************************************************************)
(* Claims about item_id, under SpecFp.                                     *)
(***************************************************************************)
\* the upper-case letter of every lower-case letter
ToUpper ==
    [c \in {LowerChars[i] : i \in DOMAIN LowerChars} |->
        UpperChars[CHOOSE i \in DOMAIN LowerChars : LowerChars[i] = c]]

upper(s) == [i \in 1..Len(s) |-> IF s[i] \in DOMAIN ToUpper THEN ToUpper[s[i]] ELSE s[i]]

\* the words of s: its maximal runs of characters that are not whitespace
Split(s) ==
    LET F[i \in 0..Len(s)] ==
            IF i = 0 THEN <<>>
            ELSE IF s[i] \in Whitespace THEN F[i-1]
            ELSE IF i > 1 /\ s[i-1] \notin Whitespace
                 THEN [F[i-1] EXCEPT ![Len(F[i-1])] = Append(@, s[i])]
                 ELSE Append(F[i-1], <<s[i]>>)
    IN  F[Len(s)]

\* a and b differ at most in letter case, in leading and trailing whitespace
\* and in the length of their whitespace runs
SameUpToCaseAndSpace(a, b) ==
    /\ Len(Split(a)) = Len(Split(b))
    /\ \A k \in DOMAIN Split(a) : upper(Split(a)[k]) = upper(Split(b)[k])

FpReturned == fp.pc = "returned"

\* C14: pairs with the same normalized title and the same normalized link have
\* the same fingerprint; so have pairs that differ at most in letter case,
\* leading/trailing whitespace and the length of whitespace runs; and
\* normalize_text is idempotent.
C14_NormalizationInsensitive ==
    FpReturned =>
        /\ (normalize_text(fp.t1) = normalize_text(fp.t2)
            /\ normalize_text(fp.l1) = normalize_text(fp.l2)) => fp.id1 = fp.id2
        /\ (SameUpToCaseAndSpace(fp.t1, fp.t2)
            /\ SameUpToCaseAndSpace(fp.l1, fp.l2)) => fp.id1 = fp.id2
        /\ \A x \in {fp.t1, fp.l1, fp.t2, fp.l2} :
              normalize_text(normalize_text(x)) = normalize_text(x)

\* two titles that differ in case, in the whitespace around them and in the
\* length of a whitespace run inside them, fingerprinted alike
C14_Witness ==
    /\ FpReturned
    /\ fp.t1 = <<"a", " ", "a">>
    /\ fp.t2 = <<"A", "\t", " ", "a">>
    /\ fp.l1 = <<"x">>
    /\ fp.l2 = <<" ", "X", "\n">>
    /\ fp.id1 = fp.id2

\* C19: two pairs whose normalized titles differ or whose normalized links
\* differ never have the same pre-hash string, hence never the same
\* fingerprint.
C19_SeparatorInjective ==
    FpReturned =>
        ((normalize_text(fp.t1) # normalize_text(fp.t2)
          \/ normalize_text(fp.l1) # normalize_text(fp.l2))
            => (fp.base1 # fp.base2 /\ fp.id1 # fp.id2))

(***************************************************************************)
(* Claims about the loops of main and fetch_rss_source, under Spec.        *)
(***************************************************************************)
\* main is at a source of cfg["sources"] whose type is not "rss"
AtOtherSource(p) ==
    /\ pc[p] = "sources"
    /\ src_i[p] <= Len(cfg["sources"])
    /\ ~ ( /\ "type" \in DOMAIN cfg["sources"][src_i[p]]
           /\ cfg["sources"][src_i[p]]["type"] = "rss" )

\* C15: the step of a run at a source whose type is not rss goes on to the next
\* source and nothing else: fetch_rss_source (the only reader and writer of the
\* ledger) is not entered, no item is added, the ledger is unchanged; and a run
\* reaches build_email_html only once every source has had its turn.
C15_UnsupportedSourceSkipped ==
    [][\A p \in Procs :
          /\ (AtOtherSource(p) /\ pc'[p] # "idle") =>
                /\ pc'[p] = "sources"
                /\ src_i'[p] = src_i[p] + 1
                /\ db' = db
                /\ markCalls' = markCalls
                /\ emitted' = emitted
                /\ items'[p] = items[p]
                /\ all_items'[p] = all_items[p]
          /\ (pc[p] = "sources" /\ pc'[p] = "build") =>
                src_i[p] > Len(cfg["sources"])]_vars

\* a digest was sent with an item of source A and one of source B, the rss
\* source that follows the html source H
C15_Witness ==
    /\ pc[1] = "done"
    /\ \E i, j \in DOMAIN digest[1] :
          /\ digest[1][i].source = "A"
          /\ digest[1][j].source = "B"
    /\ cfg["sources"][2]["type"] = "html"

\* fetch_rss_source is at an entry of d.entries
AtEntry(p) == pc[p] = "entry" /\ ent_i[p] <= Len(d_entries[p])

\* the entry fetch_rss_source is at: what score_item says, and its fingerprint
CurKeep(p) == ScoreOf[d_entries[p][ent_i[p]]][cfg][1]
CurIid(p) == IidOfEntry[d_entries[p][ent_i[p]]]

\* C16: in fetch_rss_source, an entry that is not relevant or whose fingerprint
\* is in the ledger is passed over: no item, no mark_seen call, the ledger
\* unchanged. An entry that is relevant and not in the ledger, and no other,
\* gets to items.append and mark_seen, which add exactly one item, with the
\* fingerprint of the entry, and exactly one record, of that fingerprint. The
\* ledger changes in no other step of fetch_rss_source.
C16_EntryLedgerFrame ==
    [][\A p \in Procs :
          pc'[p] # "idle" =>
            /\ (AtEntry(p) /\ (~ CurKeep(p) \/ already_seen(db, CurIid(p)))) =>
                  /\ db' = db
                  /\ markCalls' = markCalls
                  /\ items'[p] = items[p]
                  /\ pc'[p] = "entry"
                  /\ ent_i'[p] = ent_i[p] + 1
            /\ (AtEntry(p) /\ CurKeep(p) /\ ~ already_seen(db, CurIid(p))) =>
                  /\ db' = db
                  /\ items'[p] = items[p]
                  /\ pc'[p] = "mark"
                  /\ ent_i'[p] = ent_i[p]
            /\ pc[p] = "mark" =>
                  /\ CurKeep(p)
                  /\ CurIid(p) \notin LedgerIds
                  /\ db'.rows = db.rows \cup
                        {[id |-> CurIid(p), first_seen_utc |-> clock]}
                  /\ Len(items'[p]) = Len(items[p]) + 1
                  /\ SubSeq(items'[p], 1, Len(items[p])) = items[p]
                  /\ items'[p][Len(items'[p])].iid = CurIid(p)
                  /\ CountOf(markCalls', CurIid(p)) = CountOf(markCalls, CurIid(p)) + 1
                  /\ pc'[p] = "entry"
                  /\ ent_i'[p] = ent_i[p] + 1
            /\ (pc[p] \in {"entry", "mark"} /\ db' # db) => pc[p] = "mark"]_vars

\* fetch_rss_source has processed two entries of the same fingerprint: the
\* first gave one item and one record, the second, already seen, nothing
C16_Witness ==
    /\ pc[1] = "entry"
    /\ d_entries[1] = <<"a", "a2">>
    /\ ent_i[1] = 3
    /\ Len(items[1]) = 1
    /\ LedgerIds = {IidOfEntry["a"]}
    /\ CountOf(markCalls, IidOfEntry["a"]) = 1

(***************************************************************************)
(* Claims about interrupted and overlapping runs.                          *)
(***************************************************************************)
\* C17: a fingerprint that mark_seen committed in a run that was interrupted
\* (killed, or left by an exception of the ledger, the retrieval, the scorer
\* or send_email) is in the ledger ever after, so already_seen is true for it;
\* no later run holds an item of that fingerprint, and no email has it.
C17_PartialRunMarksDurable ==
    \A id \in lost :
        /\ already_seen(db, id)
        /\ \A p \in Procs :
              /\ id \notin AppendedInRun(p)
              /\ \A i \in DOMAIN digest[p] : digest[p][i].iid # id
        /\ CountOf(sent, id) = 0

\* a run completed over a feed that has an entry whose fingerprint an earlier,
\* interrupted run had marked
C17_Witness ==
    /\ pc[1] = "done"
    /\ \E u \in RssUrls : \E i \in DOMAIN feed[u] :
          /\ IidOfEntry[feed[u][i]] \in lost
          /\ ~ score_item_raises(cfg)
          /\ ScoreOf[feed[u][i]][cfg][1]
          /\ CountOf(sent, IidOfEntry[feed[u][i]]) = 0
          /\ CountOf(markCalls, IidOfEntry[feed[u][i]]) = 1

\* the records of the ledger for fingerprint id
RecordsOf(id) == {r \in db.rows : r.id = id}

\* C18 (under SpecConc, two runs that overlap): a fingerprint is emitted at
\* most once by each run, and it can be emitted by both (C18_Witness is
\* reachable); when it is, both runs have called mark_seen for it and the
\* ledger has one record for it, the one of the first call.
C18_DoubleNotifySingleRecord ==
    \A id \in DOMAIN emitted :
        /\ emitted[id] <= Cardinality(Procs)
        /\ emitted[id] >= 2 =>
              /\ CountOf(markCalls, id) >= 2
              /\ Cardinality(RecordsOf(id)) = 1
              /\ \A r \in RecordsOf(id) : r.first_seen_utc = firstMark[id]

\* both runs are under way and each has returned an Item of the same
\* fingerprint from fetch_rss_source; the ledger has one record for it
C18_Witness ==
    \E id \in DOMAIN emitted :
        /\ emitted[id] = 2
        /\ \A p \in Procs :
              /\ pc[p] \notin {"idle", "raised"}
              /\ \E i \in DOMAIN all_items[p] : all_items[p][i].iid = id
        /\ Cardinality(RecordsOf(id)) = 1

=============================================================================
